---- MODULE Spec2Model ----
(***************************************************************************)
(* Model of the GCP bucket file API: the request handlers of app/main.py,  *)
(* the storage gateway of app/storage.py and the settings of app/config.py.*)
(* Strings the code takes apart (filenames, the ALLOWED_FILE_TYPES setting)*)
(* are sequences of one-character strings; an Optional value is <<>> for   *)
(* None and <<v>> for a value v.                                           *)
(***************************************************************************)
EXTENDS Integers, Sequences, FiniteSets

\* ---------------------------------------------------------------- bounds

\* Upload bodies have 0..MaxLen bytes.
MaxLen == 1

\* Requests issued in one behaviour; all of them may be in flight together.
MaxReqs == 2

\* ------------------------------------------------------------ value sets

None == <<>>

Some(v) == <<v>>

Reqs == 1..MaxReqs

ByteVals == {1, 2}

\* Every body of 0..MaxLen bytes.
Contents == UNION {[1..n -> ByteVals] : n \in 0..MaxLen}

\* A body one byte over the largest MAX_FILE_SIZE.
Oversize == [i \in 1..(MaxLen + 1) |-> 1]

\* Bodies of the concurrent requests.
Bodies == {<<1>>, <<2>>, Oversize}

\* file.content_type of the multipart part: absent, or the declared type.
ContentTypes == {None, Some("text/plain")}

F_a_txt == <<"a", ".", "t", "x", "t">>

F_b_exe == <<"b", ".", "e", "x", "e">>

F_A_TXT == <<"A", ".", "T", "X", "T">>

F_noext == <<"n", "o">>

F_a_b_gz == <<"a", ".", "b", ".", "g", "z">>

F_a_dot == <<"a", ".">>

F_dot_txt == <<".", "t", "x", "t">>

\* Filenames of the concurrent requests.
Names == {F_a_txt, F_b_exe}

\* Filenames of the validation cases: upper case, no dot, two dots, a
\* trailing dot, a leading dot.
FileNames == Names \cup {F_A_TXT, F_noext, F_a_b_gz, F_a_dot, F_dot_txt}

S_txt == <<"t", "x", "t">>

S_TXT_gz == <<"T", "X", "T", ",", " ", "g", "z">>

S_txt_comma == <<"t", "x", "t", ",">>

S_dot_txt == <<".", "t", "x", "t">>

\* Values of the ALLOWED_FILE_TYPES setting: unset, empty, one type, two
\* types in upper case with a space, a trailing comma, a type with its dot.
AllowedSettings ==
    {None, Some(<<>>), Some(S_txt), Some(S_TXT_gz), Some(S_txt_comma), Some(S_dot_txt)}

\* The type the storage client gives an object uploaded with content_type=None.
DefaultContentType == "application/octet-stream"

\* Objects the bucket may hold before the first request.
InitObjects == {[bytes |-> <<2>>, content_type |-> "image/png"]}

\* ------------------------------------------------------- string helpers

UpperChars ==
    <<"A", "B", "C", "D", "E", "F", "G", "H", "I", "J", "K", "L", "M",
      "N", "O", "P", "Q", "R", "S", "T", "U", "V", "W", "X", "Y", "Z">>

LowerChars ==
    <<"a", "b", "c", "d", "e", "f", "g", "h", "i", "j", "k", "l", "m",
      "n", "o", "p", "q", "r", "s", "t", "u", "v", "w", "x", "y", "z">>

\* str.lower() on one character.
LowerChar(c) ==
    IF \E i \in 1..26 : UpperChars[i] = c
    THEN LowerChars[CHOOSE i \in 1..26 : UpperChars[i] = c]
    ELSE c

\* str.lower()
Lower(s) == [i \in 1..Len(s) |-> LowerChar(s[i])]

\* sep in s
Contains(s, sep) == \E i \in 1..Len(s) : s[i] = sep

RECURSIVE Split(_, _)
\* str.split(sep) for a one-character separator: the pieces between the
\* separators, empty pieces kept.
Split(s, sep) ==
    IF ~Contains(s, sep)
    THEN <<s>>
    ELSE LET i == CHOOSE k \in 1..Len(s) :
                      s[k] = sep /\ \A j \in 1..(k - 1) : s[j] # sep
         IN  <<SubSeq(s, 1, i - 1)>> \o Split(SubSeq(s, i + 1, Len(s)), sep)

RECURSIVE LStrip(_)
LStrip(s) == IF s # <<>> /\ Head(s) = " " THEN LStrip(Tail(s)) ELSE s

RECURSIVE RStrip(_)
RStrip(s) ==
    IF s # <<>> /\ s[Len(s)] = " " THEN RStrip(SubSeq(s, 1, Len(s) - 1)) ELSE s

\* str.strip()
Strip(s) == RStrip(LStrip(s))

\* x in list
InList(x, list) == \E i \in 1..Len(list) : list[i] = x

\* ---------------------------------------------------------------- state

VARIABLES
    settings,   \* app.config.settings: MAX_FILE_SIZE, ALLOWED_FILE_TYPES
    bucket,     \* the remote bucket: filename -> None or Some(object)
    generation, \* filename -> the request whose put wrote the object last (0: none)
    req         \* the requests: inputs, position in the handler, response

vars == <<settings, bucket, generation, req>>

\* A request slot no request has arrived in.
IdleReq ==
    [op |-> "none", filename |-> <<>>, content |-> <<>>, content_type |-> None,
     pc |-> "idle", status |-> 0, size |-> 0, file_content |-> <<>>,
     media_type |-> "", calls |-> <<>>, err |-> "none", mutated |-> FALSE,
     after |-> {}, atStart |-> None, bodyGen |-> 0, typeGen |-> 0]

\* ------------------------------------------------------------ exceptions

\* fastapi.HTTPException(status_code=s)
HTTPException(s) == [http |-> TRUE, status_code |-> s]

\* Any other exception: a transport error, or the client's NotFound.
OtherException == [http |-> FALSE, status_code |-> 0]


\* The handler without its "except HTTPException: raise" clause.
HandlerCatch_all_500(e) == HTTPException(500)

\* main.py "except HTTPException: raise / except Exception: raise
\* HTTPException(500)" around each handler body.
HandlerCatch(e) == IF e.http THEN e ELSE HTTPException(500)

\* The gateway without its "except HTTPException: raise" clause.
GatewayCatch_all_500(e) == HTTPException(500)

\* storage.py, the same two clauses around download_file, get_file_metadata
\* and delete_file.
GatewayCatch(e) == IF e.http THEN e ELSE HTTPException(500)

\* storage.py upload_file has the "except Exception" clause alone.
UploadCatch(e) == HTTPException(500)

\* ----------------------------------------------------------- validation

\* The size check with >= for >.
validate_file_size_ge(file_size) ==
    IF file_size >= settings.MAX_FILE_SIZE THEN Some(HTTPException(400)) ELSE None

\* main.py validate_file_size: the exception raised, or None.
validate_file_size(file_size) ==
    IF file_size > settings.MAX_FILE_SIZE THEN Some(HTTPException(400)) ELSE None

\* config.py get_allowed_extensions: None, or the list of the setting's
\* comma-separated pieces, stripped and lowercased.
get_allowed_extensions ==
    IF settings.ALLOWED_FILE_TYPES # None /\ settings.ALLOWED_FILE_TYPES[1] # <<>>
    THEN LET parts == Split(settings.ALLOWED_FILE_TYPES[1], ",")
         IN  Some([i \in 1..Len(parts) |-> Lower(Strip(parts[i]))])
    ELSE None

\* The extension taken without .lower().
file_ext_no_lower(filename) ==
    IF Contains(filename, ".")
    THEN LET parts == Split(filename, ".") IN parts[Len(parts)]
    ELSE <<>>

\* main.py line 37: filename.split(".")[-1].lower() if "." in filename else ""
file_ext(filename) ==
    IF Contains(filename, ".")
    THEN LET parts == Split(filename, ".") IN Lower(parts[Len(parts)])
    ELSE <<>>

\* main.py validate_file_type: the exception raised, or None.
validate_file_type(filename) ==
    LET allowed_extensions == get_allowed_extensions
    IN  IF allowed_extensions = None
        THEN None
        ELSE IF ~InList(file_ext(filename), allowed_extensions[1])
             THEN Some(HTTPException(400))
             ELSE None

\* --------------------------------------------------------------- backend

\* blob.exists()
blob_exists(filename) == bucket[filename] # None

\* The put without its content_type argument.
upload_from_string_no_type(old, file_content, content_type) ==
    Some([bytes |-> file_content, content_type |-> DefaultContentType])

\* The put refused when the name holds an object (first writer wins).
upload_from_string_keep_old(old, file_content, content_type) ==
    IF old # None
    THEN old
    ELSE Some([bytes |-> file_content,
               content_type |-> IF content_type = None THEN DefaultContentType
                                ELSE content_type[1]])

\* blob.upload_from_string(file_content, content_type=content_type): the
\* object the bucket holds under the name afterwards, whatever it held.
upload_from_string(old, file_content, content_type) ==
    Some([bytes |-> file_content,
          content_type |-> IF content_type = None THEN DefaultContentType
                           ELSE content_type[1]])

\* ---------------------------------------------------------------- Init

EmptyBucket == [n \in FileNames |-> None]

\* The bucket before the first request: any of the names may hold an object.
InitBuckets ==
    {[n \in FileNames |-> IF n \in Names THEN f[n] ELSE None] :
        f \in [Names -> {None} \cup {Some(o) : o \in InitObjects}]}

Init ==
    /\ settings = [MAX_FILE_SIZE |-> MaxLen, ALLOWED_FILE_TYPES |-> Some(S_txt)]
    /\ bucket \in InitBuckets
    /\ generation = [n \in FileNames |-> 0]
    /\ req = [r \in Reqs |-> IdleReq]

\* ------------------------------------------------------------- requests

Done(r) == req[r].pc = "done"

\* The handler's first position.
FirstPc(op) ==
    CASE op = "upload" -> "upload"
      [] op = "download" -> "dl_exists"
      [] op = "delete" -> "del_exists"

\* A request arrives: POST /upload, GET /download/{filename} or
\* DELETE /delete/{filename}. Slots fill in order.
Arrive(r) ==
    /\ req[r].pc = "idle"
    /\ \A q \in Reqs : q < r => req[q].pc # "idle"
    /\ \E op \in {"upload", "download", "delete"}, filename \in Names,
          content \in Bodies \cup {<<>>}, content_type \in ContentTypes :
          /\ op = "upload" => content # <<>>
          /\ op # "upload" => content = <<>> /\ content_type = None
          /\ req' = [req EXCEPT ![r] =
                [IdleReq EXCEPT !.op = op, !.filename = filename,
                                !.content = content, !.content_type = content_type,
                                !.pc = FirstPc(op),
                                !.after = {q \in Reqs : Done(q)},
                                !.atStart = bucket[filename]]]
    /\ UNCHANGED <<settings, bucket, generation>>

\* The request ends with the exception e, raised by backend call `call`
\* (or by validation: call = None) for the reason `kind`.
Raised(q, call, e, kind) ==
    [q EXCEPT !.pc = "done", !.status = HandlerCatch(e).status_code, !.err = kind,
              !.calls = q.calls \o call]

\* The response of an upload built with an error: an exception after the put.
upload_ok_raises(q) ==
    [q EXCEPT !.pc = "done", !.status = 500, !.err = "backend",
              !.calls = q.calls \o <<"put">>, !.mutated = TRUE]

\* storage.py upload_file after the put (lines 41-47) and main.py lines
\* 78-82: the 200 response with the metadata of the upload.
upload_ok(q) ==
    [q EXCEPT !.pc = "done", !.status = 200, !.size = Len(q.content),
              !.calls = q.calls \o <<"put">>, !.mutated = TRUE]

\* main.py upload_file with storage.py upload_file.
UploadFile(r) ==
    LET q == req[r]
        file_content == q.content
        file_size == Len(file_content)
        sizeExc == validate_file_size(file_size)
        typeExc == validate_file_type(q.filename)
    IN  /\ q.pc = "upload"
        /\ IF sizeExc # None
           THEN /\ req' = [req EXCEPT ![r] = Raised(q, <<>>, sizeExc[1], "validation")]
                /\ UNCHANGED <<bucket, generation>>
           ELSE IF typeExc # None
           THEN /\ req' = [req EXCEPT ![r] = Raised(q, <<>>, typeExc[1], "validation")]
                /\ UNCHANGED <<bucket, generation>>
           ELSE \E fault \in BOOLEAN :
                IF fault
                THEN /\ req' = [req EXCEPT ![r] =
                            Raised(q, <<"put">>, UploadCatch(OtherException), "backend")]
                     /\ UNCHANGED <<bucket, generation>>
                ELSE /\ bucket' = [bucket EXCEPT ![q.filename] =
                            upload_from_string(bucket[q.filename], file_content,
                                               q.content_type)]
                     /\ generation' = [generation EXCEPT ![q.filename] = r]
                     /\ req' = [req EXCEPT ![r] = upload_ok(q)]
        /\ UNCHANGED settings

\* A backend call that is not the last of its request returned.
Called(q, call, pc) == [q EXCEPT !.pc = pc, !.calls = q.calls \o <<call>>]

\* download_file without its existence check.
download_not_found_unchecked(filename) == None

\* storage.py download_file lines 68-73: the 404 of the existence check.
download_not_found(filename) ==
    IF ~blob_exists(filename) THEN Some(HTTPException(404)) ELSE None

\* storage.py get_file_metadata lines 100-104: the 404 of the existence check.
metadata_not_found(filename) ==
    IF ~blob_exists(filename) THEN Some(HTTPException(404)) ELSE None

\* delete_file without its existence check.
delete_not_found_unchecked(filename) == None

\* storage.py delete_file lines 136-141: the 404 of the existence check.
delete_not_found(filename) ==
    IF ~blob_exists(filename) THEN Some(HTTPException(404)) ELSE None

\* storage.py download_file: blob.exists(), the first backend call of a
\* download.
DownloadExists(r) ==
    LET q == req[r]
        notFound == download_not_found(q.filename)
    IN  /\ q.pc = "dl_exists"
        /\ \E fault \in BOOLEAN :
            req' = [req EXCEPT ![r] =
                IF fault
                THEN Raised(q, <<"exists">>, GatewayCatch(OtherException), "backend")
                ELSE IF notFound # None
                THEN Raised(q, <<"exists">>, GatewayCatch(notFound[1]), "notfound")
                ELSE Called(q, "exists", "dl_read")]
        /\ UNCHANGED <<settings, bucket, generation>>

\* storage.py download_file: blob.download_as_bytes(), which raises the
\* client's NotFound when the object is gone.
DownloadRead(r) ==
    LET q == req[r]
    IN  /\ q.pc = "dl_read"
        /\ \E fault \in BOOLEAN :
            req' = [req EXCEPT ![r] =
                IF fault
                THEN Raised(q, <<"read">>, GatewayCatch(OtherException), "backend")
                ELSE IF ~blob_exists(q.filename)
                THEN Raised(q, <<"read">>, GatewayCatch(OtherException), "missing")
                ELSE [Called(q, "read", "md_exists") EXCEPT
                         !.file_content = bucket[q.filename][1].bytes,
                         !.bodyGen = generation[q.filename]]]
        /\ UNCHANGED <<settings, bucket, generation>>

\* storage.py get_file_metadata: blob.exists(), called by main.py
\* download_file once the content is read.
MetadataExists(r) ==
    LET q == req[r]
        notFound == metadata_not_found(q.filename)
    IN  /\ q.pc = "md_exists"
        /\ \E fault \in BOOLEAN :
            req' = [req EXCEPT ![r] =
                IF fault
                THEN Raised(q, <<"exists">>, GatewayCatch(OtherException), "backend")
                ELSE IF notFound # None
                THEN Raised(q, <<"exists">>, GatewayCatch(notFound[1]), "notfound")
                ELSE Called(q, "exists", "md_reload")]
        /\ UNCHANGED <<settings, bucket, generation>>

\* main.py download_file lines 108-117: the 200 response, the content read
\* earlier with the content type of the metadata.
download_ok(q, content_type, gen) ==
    [Called(q, "reload", "done") EXCEPT
        !.status = 200, !.media_type = content_type, !.typeGen = gen]

\* storage.py get_file_metadata: blob.reload(), which raises the client's
\* NotFound when the object is gone; then the response of main.py
\* download_file.
MetadataReload(r) ==
    LET q == req[r]
    IN  /\ q.pc = "md_reload"
        /\ \E fault \in BOOLEAN :
            req' = [req EXCEPT ![r] =
                IF fault
                THEN Raised(q, <<"reload">>, GatewayCatch(OtherException), "backend")
                ELSE IF ~blob_exists(q.filename)
                THEN Raised(q, <<"reload">>, GatewayCatch(OtherException), "missing")
                ELSE download_ok(q, bucket[q.filename][1].content_type,
                                 generation[q.filename])]
        /\ UNCHANGED <<settings, bucket, generation>>

\* storage.py delete_file: blob.exists(), the first backend call of a delete.
DeleteExists(r) ==
    LET q == req[r]
        notFound == delete_not_found(q.filename)
    IN  /\ q.pc = "del_exists"
        /\ \E fault \in BOOLEAN :
            req' = [req EXCEPT ![r] =
                IF fault
                THEN Raised(q, <<"exists">>, GatewayCatch(OtherException), "backend")
                ELSE IF notFound # None
                THEN Raised(q, <<"exists">>, GatewayCatch(notFound[1]), "notfound")
                ELSE Called(q, "exists", "del_delete")]
        /\ UNCHANGED <<settings, bucket, generation>>

\* storage.py delete_file lines 144-148 and main.py lines 139-143: the 200
\* response of a delete.
delete_ok(q) ==
    [Called(q, "delete", "done") EXCEPT !.status = 200, !.mutated = TRUE]

\* storage.py delete_file: blob.delete(), which raises the client's NotFound
\* when the object is gone; then the response of main.py delete_file.
DeleteBlob(r) ==
    LET q == req[r]
    IN  /\ q.pc = "del_delete"
        /\ \E fault \in BOOLEAN :
            IF fault
            THEN /\ req' = [req EXCEPT ![r] =
                        Raised(q, <<"delete">>, GatewayCatch(OtherException), "backend")]
                 /\ UNCHANGED bucket
            ELSE IF ~blob_exists(q.filename)
            THEN /\ req' = [req EXCEPT ![r] =
                        Raised(q, <<"delete">>, GatewayCatch(OtherException), "missing")]
                 /\ UNCHANGED bucket
            ELSE /\ req' = [req EXCEPT ![r] = delete_ok(q)]
                 /\ bucket' = [bucket EXCEPT ![q.filename] = None]
        /\ UNCHANGED <<settings, generation>>

\* -------------------------------------------------------- specifications

Next ==
    \E r \in Reqs :
        \/ Arrive(r)
        \/ UploadFile(r)
        \/ DownloadExists(r)
        \/ DownloadRead(r)
        \/ MetadataExists(r)
        \/ MetadataReload(r)
        \/ DeleteExists(r)
        \/ DeleteBlob(r)

\* Concurrent requests against one bucket.
Spec == Init /\ [][Next]_vars

\* One upload request has arrived, with any of the filenames, bodies and
\* content types, under any of the settings.
InitValidate ==
    /\ settings \in [MAX_FILE_SIZE : 0..MaxLen, ALLOWED_FILE_TYPES : AllowedSettings]
    /\ bucket \in InitBuckets
    /\ generation = [n \in FileNames |-> 0]
    /\ \E filename \in FileNames, content \in Contents, content_type \in ContentTypes :
          req = [r \in Reqs |->
                    IF r = 1
                    THEN [IdleReq EXCEPT !.op = "upload", !.filename = filename,
                                         !.content = content,
                                         !.content_type = content_type,
                                         !.pc = "upload",
                                         !.atStart = bucket[filename]]
                    ELSE IdleReq]

NextValidate == \E r \in Reqs : UploadFile(r)

\* The upload handler on every combination of settings and upload.
SpecValidate == InitValidate /\ [][NextValidate]_vars

\* ------------------------------------------------- expected validation
\* What the specification says of each filename and each setting, written
\* out case by case.

S_exe == <<"e", "x", "e">>

S_gz == <<"g", "z">>

\* The extension of each filename: the part after the last ".", lowercased;
\* empty without a ".".
ExpectedExt(filename) ==
    CASE filename = F_a_txt -> S_txt
      [] filename = F_b_exe -> S_exe
      [] filename = F_A_TXT -> S_txt
      [] filename = F_noext -> <<>>
      [] filename = F_a_b_gz -> S_gz
      [] filename = F_a_dot -> <<>>
      [] filename = F_dot_txt -> S_txt

\* No allow-list is configured: the setting is unset or empty.
Unrestricted(setting) == setting \in {None, Some(<<>>)}

\* The allow-list of each setting: its entries trimmed and lowercased.
ExpectedAllowed(setting) ==
    CASE setting = Some(S_txt) -> {S_txt}
      [] setting = Some(S_TXT_gz) -> {S_txt, S_gz}
      [] setting = Some(S_txt_comma) -> {S_txt, <<>>}
      [] setting = Some(S_dot_txt) -> {S_dot_txt}
      [] OTHER -> {}

\* The extension check is to pass for the filename.
TypeAllowed(filename) ==
    \/ Unrestricted(settings.ALLOWED_FILE_TYPES)
    \/ ExpectedExt(filename) \in ExpectedAllowed(settings.ALLOWED_FILE_TYPES)

\* The step is the upload handler of request r running to its response.
UploadStep(r) == req[r].pc = "upload" /\ req'[r].pc = "done"

\* ---------------------------------------------------------------- C1
\* C1: an upload whose body is longer than MAX_FILE_SIZE is answered 400
\* whatever its extension, makes no backend call and leaves the bucket as it
\* was; a body of at most MAX_FILE_SIZE bytes (the limit itself included)
\* passes the size check, and with an allowed extension the upload is
\* answered 200 unless the put itself fails.
C1_SizeLimit ==
    [][\A r \in Reqs : UploadStep(r) =>
        LET s == Len(req[r].content)
            M == settings.MAX_FILE_SIZE
        IN  /\ s > M => /\ req'[r].status = 400
                        /\ req'[r].calls = <<>>
                        /\ bucket' = bucket
            /\ (s <= M /\ TypeAllowed(req[r].filename)) =>
                    /\ req'[r].calls = <<"put">>
                    /\ req'[r].status = 200 \/ req'[r].err = "backend"
                    /\ req'[r].status = 200 => req'[r].size = s]_vars

\* An upload one byte over the limit, with an allowed extension, was
\* answered 400 without a backend call.
C1_Witness ==
    \E r \in Reqs :
        /\ Done(r) /\ req[r].op = "upload"
        /\ Len(req[r].content) = settings.MAX_FILE_SIZE + 1
        /\ TypeAllowed(req[r].filename)
        /\ req[r].status = 400 /\ req[r].calls = <<>>
        /\ bucket[req[r].filename] = req[r].atStart

\* ---------------------------------------------------------------- C2
\* C2: with an allow-list configured, an upload whose extension (after the
\* last ".", lowercased, empty without a ".") is not in the list is answered
\* 400, makes no backend call and creates no object; an upload whose
\* extension is in the list, and every upload when no list is configured,
\* passes the extension check: if its size is within the limit the put is
\* called.
C2_AllowList ==
    [][\A r \in Reqs : UploadStep(r) =>
        /\ ~TypeAllowed(req[r].filename) =>
                /\ req'[r].status = 400
                /\ req'[r].calls = <<>>
                /\ bucket' = bucket
        /\ (TypeAllowed(req[r].filename)
                /\ Len(req[r].content) <= settings.MAX_FILE_SIZE) =>
                /\ req'[r].status # 400
                /\ req'[r].calls = <<"put">>]_vars

\* b.exe, of a size within the limit, was refused under the allow-list
\* "txt", and the bucket holds no b.exe.
C2_Witness ==
    \E r \in Reqs :
        /\ Done(r) /\ req[r].op = "upload" /\ req[r].filename = F_b_exe
        /\ settings.ALLOWED_FILE_TYPES = Some(S_txt)
        /\ Len(req[r].content) <= settings.MAX_FILE_SIZE
        /\ req[r].status = 400 /\ req[r].calls = <<>>
        /\ bucket[F_b_exe] = None

\* ------------------------------------------------------ request order

Started(r) == req[r].pc # "idle"

\* Request a had its response before request b arrived.
Before(a, b) == a \in req[b].after

\* Request m may write or remove the object named n.
Mutator(m, n) ==
    Started(m) /\ req[m].filename = n /\ req[m].op \in {"upload", "delete"}

\* Request m may write the object named n.
Uploader(m, n) == Started(m) /\ req[m].filename = n /\ req[m].op = "upload"

\* No request other than a and b, among `kind`, acts on n from the arrival
\* of a to the response of b.
Undisturbed(a, b, n, kind(_, _)) ==
    \A m \in Reqs \ {a, b} : kind(m, n) => Before(m, a) \/ Before(b, m)

\* The content type an object uploaded with content_type is to have.
ExpectedType(content_type) ==
    IF content_type = None THEN "application/octet-stream" ELSE content_type[1]

\* The backend calls of each operation, in order.
OpCalls(op) ==
    CASE op = "upload" -> <<"put">>
      [] op = "download" -> <<"exists", "read", "exists", "reload">>
      [] op = "delete" -> <<"exists", "delete">>
      [] OTHER -> <<>>

IsPrefix(s, t) == Len(s) <= Len(t) /\ s = SubSeq(t, 1, Len(s))

\* ---------------------------------------------------------------- C3
\* C3: when an upload of bytes B under name N with content type T was
\* answered 200 and a download of N arrives after it, with no other upload
\* or delete of N between the arrival of the upload and the response of the
\* download, the download is answered 200 with body B and content type T
\* (the backend's default type when the upload gave none), unless one of its
\* backend calls fails. The upload overwrites whatever N held.
C3_RoundTrip ==
    \A u, d \in Reqs :
        (/\ req[u].op = "upload" /\ Done(u) /\ req[u].status = 200
         /\ req[d].op = "download" /\ Done(d)
         /\ req[d].filename = req[u].filename
         /\ Before(u, d)
         /\ Undisturbed(u, d, req[u].filename, Mutator)
         /\ req[d].err # "backend")
        => /\ req[d].status = 200
           /\ req[d].file_content = req[u].content
           /\ req[d].media_type = ExpectedType(req[u].content_type)

\* An upload with a declared content type replaced an object, and the
\* download that followed returned it.
C3_Witness ==
    \E u, d \in Reqs :
        /\ req[u].op = "upload" /\ Done(u) /\ req[u].status = 200
        /\ req[u].atStart # None
        /\ req[u].content_type = Some("text/plain")
        /\ req[d].op = "download" /\ Done(d)
        /\ req[d].filename = req[u].filename
        /\ Before(u, d)
        /\ Undisturbed(u, d, req[u].filename, Mutator)
        /\ req[d].status = 200
        /\ req[d].file_content = req[u].content
        /\ req[d].media_type = "text/plain"

\* ---------------------------------------------------------------- C4
\* C4: a delete of a name that holds no object when it arrives, with no
\* upload of that name in flight, is answered 404 after the existence check
\* alone; a delete of a name that holds an object, with no other upload or
\* delete of it in flight, is answered 200; a second delete, or a download,
\* arriving after a delete answered 200 with no upload of the name in
\* between is answered 404. (Each unless a backend call of the request
\* fails.)
C4_Delete ==
    /\ \A d \in Reqs :
        (req[d].op = "delete" /\ Done(d) /\ req[d].err # "backend")
        => /\ (req[d].atStart = None
                    /\ Undisturbed(d, d, req[d].filename, Uploader))
                => req[d].status = 404 /\ req[d].calls = <<"exists">>
           /\ (req[d].atStart # None
                    /\ Undisturbed(d, d, req[d].filename, Mutator))
                => req[d].status = 200 /\ req[d].calls = <<"exists", "delete">>
    /\ \A d1, d2 \in Reqs :
        (/\ req[d1].op = "delete" /\ Done(d1) /\ req[d1].status = 200
         /\ req[d2].op \in {"delete", "download"} /\ Done(d2)
         /\ req[d2].filename = req[d1].filename
         /\ Before(d1, d2)
         /\ Undisturbed(d1, d2, req[d1].filename, Uploader)
         /\ req[d2].err # "backend")
        => req[d2].status = 404 /\ req[d2].calls = <<"exists">>

\* Two deletes of one name, one after the other: 200, then 404.
C4_Witness ==
    \E d1, d2 \in Reqs :
        /\ req[d1].op = "delete" /\ Done(d1) /\ req[d1].status = 200
        /\ req[d2].op = "delete" /\ Done(d2)
        /\ req[d2].filename = req[d1].filename
        /\ Before(d1, d2)
        /\ req[d2].status = 404

\* ---------------------------------------------------------------- C5
\* C5: no step of a download changes the bucket; and a download of a name
\* that holds no object when it arrives, with no upload of that name in
\* flight, is answered 404 after the existence check alone, never 200 and
\* never 500, unless the existence check itself fails.
C5_DownloadNotFound ==
    [][\A d \in Reqs : (req[d].op = "download" /\ req'[d] # req[d]) =>
        /\ bucket' = bucket
        /\ (/\ req'[d].pc = "done"
            /\ req[d].atStart = None
            /\ \A m \in Reqs \ {d} :
                  (req[m].pc # "idle" /\ req[m].filename = req[d].filename
                     /\ req[m].op = "upload") => m \in req[d].after
            /\ req'[d].err # "backend")
           => req'[d].status = 404 /\ req'[d].calls = <<"exists">>]_vars

\* A download of a name that an earlier delete removed was answered 404.
C5_Witness ==
    \E d, x \in Reqs :
        /\ req[d].op = "download" /\ Done(d) /\ req[d].atStart = None
        /\ req[x].op = "delete" /\ req[x].status = 200 /\ Before(x, d)
        /\ req[x].filename = req[d].filename
        /\ req[d].status = 404

\* ---------------------------------------------------------------- C6
\* C6: whatever the operation, a request that failed validation is answered
\* 400 with no backend call made, one whose existence check found no object
\* is answered 404, one with a backend call that raised is answered 500,
\* and one with no failure 200; the failing call is the request's last, and
\* its backend calls are an initial part of the operation's calls, none
\* repeated.
C6_ErrorMapping ==
    \A r \in Reqs :
        /\ IsPrefix(req[r].calls, OpCalls(req[r].op))
        /\ req[r].err # "none" => Done(r)
        /\ Done(r) =>
            /\ req[r].err = "validation" =>
                    req[r].status = 400 /\ req[r].calls = <<>>
            /\ req[r].err = "notfound" =>
                    /\ req[r].status = 404
                    /\ req[r].calls # <<>>
                    /\ req[r].calls[Len(req[r].calls)] = "exists"
            /\ req[r].err \in {"backend", "missing"} =>
                    req[r].status = 500 /\ req[r].calls # <<>>
            /\ req[r].err = "none" =>
                    req[r].status = 200 /\ req[r].calls = OpCalls(req[r].op)

\* One request was answered 404 by its existence check and another 500 by
\* a backend call that raised after an earlier call of it had returned.
C6_Witness ==
    \E a, b \in Reqs :
        /\ Done(a) /\ req[a].err = "notfound" /\ req[a].status = 404
        /\ Done(b) /\ req[b].err = "backend" /\ req[b].status = 500
        /\ Len(req[b].calls) = 2

\* ---------------------------------------------------------------- C7
\* C7 as stated: every operation is one backend call, and no request fails
\* after a backend call of it has returned.
C7_SingleCall ==
    \A r \in Reqs :
        /\ Len(req[r].calls) <= 1
        /\ req[r].status >= 400 => Len(req[r].calls) <= 1

\* C7, amended: an upload is one backend call, the put; a download makes up
\* to four (exists, read, exists, reload) and a delete up to two (exists,
\* delete), in that order. Only the put and the delete change the bucket,
\* each as the last call of a request that is then answered 200: a request
\* answered with an error has left the bucket as it was, and no request
\* changes the bucket twice.
C7_OneMutation ==
    [][\A r \in Reqs : req'[r] # req[r] =>
        /\ IsPrefix(req'[r].calls, OpCalls(req'[r].op))
        /\ req'[r].op = "upload" => Len(req'[r].calls) <= 1
        /\ req'[r].status >= 400 => bucket' = bucket
        /\ bucket' # bucket =>
              /\ req'[r].pc = "done" /\ req'[r].status = 200
              /\ req'[r].calls = OpCalls(req'[r].op)
              /\ req'[r].op \in {"upload", "delete"}
              /\ ~req[r].mutated]_vars

\* A request was answered 500 by its second backend call or a later one,
\* the earlier ones having returned.
C7_Witness ==
    \E r \in Reqs :
        /\ Done(r) /\ req[r].status = 500
        /\ Len(req[r].calls) >= 2
        /\ ~req[r].mutated

\* ---------------------------------------------------------------- C8
\* C8: while no delete of name N has arrived, once a put to N has taken
\* effect N holds the bytes and the content type of one upload, the one
\* whose put took effect last, whole; and every upload within the size
\* limit and the allow-list is answered 200 with its own size, unless its
\* put fails.
C8_LastWriterWins ==
    /\ \A n \in Names :
        ((\A m \in Reqs : ~(Started(m) /\ req[m].filename = n /\ req[m].op = "delete"))
            /\ generation[n] # 0)
        => LET w == generation[n]
           IN  /\ Uploader(w, n) /\ req[w].status = 200
               /\ bucket[n] = Some([bytes |-> req[w].content,
                                    content_type |-> ExpectedType(req[w].content_type)])
    /\ \A u \in Reqs :
        (/\ req[u].op = "upload" /\ Done(u)
         /\ Len(req[u].content) <= settings.MAX_FILE_SIZE
         /\ TypeAllowed(req[u].filename)
         /\ req[u].err # "backend")
        => req[u].status = 200 /\ req[u].size = Len(req[u].content)

\* Every request has its response; two uploads of one name were in flight
\* together, with different bytes and different content types, both
\* answered 200.
C8_Witness ==
    \E u1, u2 \in Reqs :
        /\ \A r \in Reqs : Done(r)
        /\ u1 # u2
        /\ req[u1].op = "upload" /\ req[u2].op = "upload"
        /\ req[u1].filename = req[u2].filename
        /\ ~Before(u1, u2) /\ ~Before(u2, u1)
        /\ req[u1].status = 200 /\ req[u2].status = 200
        /\ req[u1].content # req[u2].content
        /\ req[u1].content_type # req[u2].content_type
        /\ generation[req[u1].filename] = u1

\* ---------------------------------------------------------------- C9
\* C9: a request whose content read, metadata reload or delete ran against
\* an absent object had passed its existence check before, is answered 500,
\* and a delete of the same name, not yet answered when the request
\* arrived, was answered 200. Such requests exist (C9_Witness).
C9_CheckThenAct ==
    \A r \in Reqs :
        req[r].err = "missing" =>
            /\ Done(r) /\ req[r].status = 500
            /\ Len(req[r].calls) >= 2
            /\ req[r].calls[Len(req[r].calls) - 1] = "exists"
            /\ req[r].calls[Len(req[r].calls)] \in {"read", "reload", "delete"}
            /\ \E d \in Reqs \ {r} :
                  /\ req[d].op = "delete" /\ req[d].filename = req[r].filename
                  /\ Done(d) /\ req[d].status = 200
                  /\ ~Before(d, r)

\* A download passed its existence check, a delete arriving after the
\* download removed the object, and the download's content read found it
\* gone.
C9_Witness ==
    \E r, d \in Reqs :
        /\ req[r].op = "download" /\ req[r].err = "missing"
        /\ req[r].calls = <<"exists", "read">>
        /\ req[d].op = "delete" /\ req[d].filename = req[r].filename
        /\ req[d].status = 200
        /\ ~Before(d, r) /\ ~Before(r, d)

\* --------------------------------------------------------------- C10
\* C10: a download answered 200 returns the bytes and the content type of
\* one and the same stored version of the object.
C10_SameVersion ==
    \A r \in Reqs :
        (req[r].op = "download" /\ Done(r) /\ req[r].status = 200)
        => req[r].bodyGen = req[r].typeGen

====
